---- MODULE Spec2Model ----
(***************************************************************************)
(* Model of src/Repl.cpp: the MessageQueue (a mutex-guarded std::queue),   *)
(* the Connection (async_receive, async_send, send) and the rc command     *)
(* built by main.                                                          *)
(*                                                                         *)
(* A message is represented by the number of the send() call that          *)
(* enqueued it (1, 2, ...): its text is opaque to the queue and to the     *)
(* Connection.  A datagram is represented by the number of the receive     *)
(* completion that delivered it and by its source endpoint.                *)
(*                                                                         *)
(* "loop" is the thread of main: it runs io_context.poll(), hence every    *)
(* completion handler, and it calls send().  Spec is the program as main   *)
(* runs it (one thread).  SpecMT adds other threads that call              *)
(* Connection::send concurrently; the steps of send() are the atomic       *)
(* sections delimited by the MessageQueue mutex.                           *)
(***************************************************************************)
EXTENDS Integers, Sequences, FiniteSets, TLC

\* ---------------------------------------------------------------- bounds
\* send() calls made over a run
MaxSends == 3
\* receive completions delivered over a run
MaxRecv == 3

\* ------------------------------------------------------------- constants
LoopThread == "loop"
OtherThreads == {"t1"}
Threads == {LoopThread} \cup OtherThreads

\* remote_endpoint of main (192.168.10.1:8889) and any other datagram source
Remote == "192.168.10.1:8889"
Endpoints == {Remote, "other"}

\* messages are numbered from 1: 0 is the unset `message` of async_send
NoMsg == 0
\* what front() of an empty std::queue yields: not a message that was pushed
Garbage == -1

\* state.axes[i] in thousandths (GLFW reports a float, nominally in [-1, 1])
AxisValues == {-1500, -1000, -425, 420, 1500}
AxisIndex == 0..3

VARIABLES
    queue,        \* MessageQueue::queue, front first
    pc,           \* per thread: where it is inside send()/async_send()
    msg,          \* per thread: the local `message` of async_send
    outstanding,  \* async_send_to operations issued and not yet completed
    wire,         \* history: every async_send_to issued, in issue order, with
                  \* the numbers of send and receive errors reported before it
    sends,        \* number of send() calls made so far
    sendErrors,   \* number of "error sending" reports
    endpoint,     \* Connection::endpoint
    started,      \* main has called connection->async_receive()
    recvPending,  \* async_receive_from operations outstanding
    recvDone,     \* receive completions handled so far
    delivered,    \* history: messages printed by the receive handler
    recvErrors,   \* number of "error receiving" reports
    ub,           \* outcome of undefined behaviour, "none" while defined
    stranded,     \* history: payloads queued when a send completion failed
    axes,         \* GLFWgamepadstate::axes, in thousandths
    rc            \* the fields a, b, c, d of the last rc command built

connVars == <<queue, pc, msg, outstanding, wire, sends, sendErrors, endpoint,
              started, recvPending, recvDone, delivered, recvErrors, ub,
              stranded>>
rcVars == <<axes, rc>>
vars == <<queue, pc, msg, outstanding, wire, sends, sendErrors, endpoint,
          started, recvPending, recvDone, delivered, recvErrors, ub,
          stranded, rcVars>>

\* ---------------------------------------------------------- MessageQueue
\* push that tests emptiness after appending instead of before
MQ_push_testAfter(q, m) == [queue |-> Append(q, m), ret |-> (Append(q, m) = <<>>)]

\* MessageQueue::push: queue after the call, and the value returned
MQ_push(q, m) == [queue |-> Append(q, m), ret |-> (q = <<>>)]

\* pop that returns front() and forgets queue.pop()
MQ_pop_keepFront(q) == [queue |-> q, ret |-> Head(q)]

\* MessageQueue::pop on a non-empty queue: front() then pop()
MQ_pop(q) == [queue |-> Tail(q), ret |-> Head(q)]

\* empty() with the test inverted
MQ_empty_inverted(q) == q # <<>>

\* MessageQueue::empty
MQ_empty(q) == q = <<>>

\* MessageQueue::pop on an empty queue is undefined (front() and pop() of an
\* empty std::queue): the build may abort, or hand back a garbage pointer
\* with the deque left as it was or with its cursors corrupted.  What the
\* process does after that is not defined either: the model records the
\* outcome in ub and follows the run no further.
PopEmptyOutcomes == {"abort", "garbage", "garbage_corrupt"}

\* ------------------------------------------------------------ Connection
Init ==
    /\ queue = <<>>
    /\ pc = [t \in Threads |-> "idle"]
    /\ msg = [t \in Threads |-> NoMsg]
    /\ outstanding = <<>>
    /\ wire = <<>>
    /\ sends = 0
    /\ sendErrors = 0
    /\ endpoint = Remote
    /\ started = FALSE
    /\ recvPending = 0
    /\ recvDone = 0
    /\ delivered = <<>>
    /\ recvErrors = 0
    /\ ub = "none"
    /\ stranded = {}
    /\ axes = [i \in AxisIndex |-> 0]
    /\ rc = <<>>

Range(s) == {s[k] : k \in 1..Len(s)}

RemoveAt(s, i) == SubSeq(s, 1, i - 1) \o SubSeq(s, i + 1, Len(s))

\* main: connection->async_receive(), once, before the loop
StartReceive ==
    /\ ub = "none"
    /\ ~started
    /\ pc[LoopThread] = "idle"
    /\ started' = TRUE
    /\ recvPending' = recvPending + 1
    /\ UNCHANGED <<queue, pc, msg, outstanding, wire, sends, sendErrors,
                   endpoint, recvDone, delivered, recvErrors, ub, rcVars, stranded>>

\* a receive handler that arms the next receive first and prints the buffer
\* afterwards: what it prints is no longer the datagram of this completion
RecvComplete_staleBuffer(ok, src) ==
    /\ ub = "none"
    /\ pc[LoopThread] = "idle"
    /\ recvPending > 0
    /\ recvDone < MaxRecv
    /\ recvDone' = recvDone + 1
    /\ IF ok
       THEN /\ endpoint' = src
            /\ delivered' = Append(delivered, recvDone + 2)
            /\ recvPending' = (recvPending - 1) + 1
            /\ UNCHANGED recvErrors
       ELSE /\ recvErrors' = recvErrors + 1
            /\ recvPending' = recvPending - 1
            /\ UNCHANGED <<endpoint, delivered>>
    /\ UNCHANGED <<queue, pc, msg, outstanding, wire, sends, sendErrors,
                   started, ub, rcVars, stranded>>

\* a receive handler that calls async_receive() twice after a success
RecvComplete_doubleRearm(ok, src) ==
    /\ ub = "none"
    /\ pc[LoopThread] = "idle"
    /\ recvPending > 0
    /\ recvDone < MaxRecv
    /\ recvDone' = recvDone + 1
    /\ IF ok
       THEN /\ endpoint' = src
            /\ delivered' = Append(delivered, recvDone + 1)
            /\ recvPending' = (recvPending - 1) + 2
            /\ UNCHANGED recvErrors
       ELSE /\ recvErrors' = recvErrors + 1
            /\ recvPending' = recvPending - 1
            /\ UNCHANGED <<endpoint, delivered>>
    /\ UNCHANGED <<queue, pc, msg, outstanding, wire, sends, sendErrors,
                   started, ub, rcVars, stranded>>

\* a receive handler that forgets to call async_receive() after a success
RecvComplete_noRearm(ok, src) ==
    /\ ub = "none"
    /\ pc[LoopThread] = "idle"
    /\ recvPending > 0
    /\ recvDone < MaxRecv
    /\ recvDone' = recvDone + 1
    /\ IF ok
       THEN /\ endpoint' = src
            /\ delivered' = Append(delivered, recvDone + 1)
            /\ recvPending' = recvPending - 1
            /\ UNCHANGED recvErrors
       ELSE /\ recvErrors' = recvErrors + 1
            /\ recvPending' = recvPending - 1
            /\ UNCHANGED <<endpoint, delivered>>
    /\ UNCHANGED <<queue, pc, msg, outstanding, wire, sends, sendErrors,
                   started, ub, rcVars, stranded>>

\* a receive handler that calls async_receive() after a failure too
RecvComplete_rearmOnError(ok, src) ==
    /\ ub = "none"
    /\ pc[LoopThread] = "idle"
    /\ recvPending > 0
    /\ recvDone < MaxRecv
    /\ recvDone' = recvDone + 1
    /\ IF ok
       THEN /\ endpoint' = src
            /\ delivered' = Append(delivered, recvDone + 1)
            /\ recvPending' = (recvPending - 1) + 1
            /\ UNCHANGED recvErrors
       ELSE /\ recvErrors' = recvErrors + 1
            /\ recvPending' = (recvPending - 1) + 1
            /\ UNCHANGED <<endpoint, delivered>>
    /\ UNCHANGED <<queue, pc, msg, outstanding, wire, sends, sendErrors,
                   started, ub, rcVars, stranded>>

\* the completion handler of async_receive_from; asio stores the datagram's
\* source in the sender_endpoint argument, which is this->endpoint
RecvComplete(ok, src) ==
    /\ ub = "none"
    /\ pc[LoopThread] = "idle"
    /\ recvPending > 0
    /\ recvDone < MaxRecv
    /\ recvDone' = recvDone + 1
    /\ IF ok
       THEN /\ endpoint' = src
            /\ delivered' = Append(delivered, recvDone + 1)
            /\ recvPending' = (recvPending - 1) + 1
            /\ UNCHANGED recvErrors
       ELSE /\ recvErrors' = recvErrors + 1
            /\ recvPending' = recvPending - 1
            /\ UNCHANGED <<endpoint, delivered>>
    /\ UNCHANGED <<queue, pc, msg, outstanding, wire, sends, sendErrors,
                   started, ub, rcVars, stranded>>

\* a send() that enqueues and never starts the drain chain
SendPush_noKick(t) ==
    /\ ub = "none"
    /\ pc[t] = "idle"
    /\ sends < MaxSends
    /\ queue' = MQ_push(queue, sends + 1).queue
    /\ sends' = sends + 1
    /\ UNCHANGED <<pc, msg, outstanding, wire, sendErrors, endpoint, started,
                   recvPending, recvDone, delivered, recvErrors, ub, rcVars,
                   stranded>>

\* Connection::send up to the return of send_queue.push (one critical
\* section); the branch on its result is local to the thread
SendPush(t) ==
    /\ ub = "none"
    /\ pc[t] = "idle"
    /\ sends < MaxSends
    /\ LET r == MQ_push(queue, sends + 1) IN
         /\ queue' = r.queue
         /\ pc' = [pc EXCEPT ![t] = IF r.ret THEN "async_send" ELSE "idle"]
    /\ sends' = sends + 1
    /\ UNCHANGED <<msg, outstanding, wire, sendErrors, endpoint, started,
                   recvPending, recvDone, delivered, recvErrors, ub, rcVars, stranded>>

\* Connection::async_send, line 79: message = send_queue.pop()
AsyncSendPop(t) ==
    /\ ub = "none"
    /\ pc[t] = "async_send"
    /\ IF queue # <<>>
       THEN LET r == MQ_pop(queue) IN
              /\ queue' = r.queue
              /\ msg' = [msg EXCEPT ![t] = r.ret]
              /\ pc' = [pc EXCEPT ![t] = "issue"]
              /\ UNCHANGED ub
       ELSE \E o \in PopEmptyOutcomes :
              /\ ub' = o
              /\ msg' = [msg EXCEPT ![t] = IF o = "abort" THEN NoMsg ELSE Garbage]
              /\ pc' = [pc EXCEPT ![t] = IF o = "abort" THEN "aborted" ELSE "issue"]
              /\ UNCHANGED queue
    /\ UNCHANGED <<outstanding, wire, sends, sendErrors, endpoint, started,
                   recvPending, recvDone, delivered, recvErrors, rcVars, stranded>>

\* Connection::async_send, lines 81-93: socket.async_send_to(*message,
\* this->endpoint, handler); the call returns at once
AsyncSendIssue(t) ==
    /\ ub = "none"
    /\ pc[t] = "issue"
    /\ outstanding' = Append(outstanding, [id |-> msg[t], dest |-> endpoint])
    /\ wire' = Append(wire, [id |-> msg[t], dest |-> endpoint,
                             errs |-> sendErrors, rerrs |-> recvErrors])
    /\ msg' = [msg EXCEPT ![t] = NoMsg]
    /\ pc' = [pc EXCEPT ![t] = "idle"]
    /\ UNCHANGED <<queue, sends, sendErrors, endpoint, started, recvPending,
                   recvDone, delivered, recvErrors, ub, rcVars, stranded>>

\* a send handler that retries the failed payload
SendComplete_retry(i, ok) ==
    /\ ub = "none"
    /\ pc[LoopThread] = "idle"
    /\ i \in 1..Len(outstanding)
    /\ IF ok
       THEN /\ outstanding' = RemoveAt(outstanding, i)
            /\ pc' = [pc EXCEPT ![LoopThread] =
                        IF ~MQ_empty(queue) THEN "async_send" ELSE "idle"]
            /\ UNCHANGED <<sendErrors, wire>>
       ELSE /\ sendErrors' = sendErrors + 1
            /\ outstanding' = Append(RemoveAt(outstanding, i), outstanding[i])
            /\ wire' = Append(wire, [id |-> outstanding[i].id,
                                     dest |-> outstanding[i].dest,
                                     errs |-> sendErrors + 1,
                                     rerrs |-> recvErrors])
            /\ UNCHANGED pc
    /\ stranded' = IF ok THEN stranded ELSE stranded \cup Range(queue)
    /\ UNCHANGED <<queue, msg, sends, endpoint, started, recvPending,
                   recvDone, delivered, recvErrors, ub, rcVars>>

\* a send handler that closes the socket after a failure, which cancels the
\* pending receive
SendComplete_closeOnError(i, ok) ==
    /\ ub = "none"
    /\ pc[LoopThread] = "idle"
    /\ i \in 1..Len(outstanding)
    /\ outstanding' = RemoveAt(outstanding, i)
    /\ IF ok
       THEN /\ pc' = [pc EXCEPT ![LoopThread] =
                        IF ~MQ_empty(queue) THEN "async_send" ELSE "idle"]
            /\ UNCHANGED <<sendErrors, recvPending>>
       ELSE /\ sendErrors' = sendErrors + 1
            /\ recvPending' = 0
            /\ UNCHANGED pc
    /\ stranded' = IF ok THEN stranded ELSE stranded \cup Range(queue)
    /\ UNCHANGED <<queue, msg, wire, sends, endpoint, started,
                   recvDone, delivered, recvErrors, ub, rcVars>>

\* a send handler that resumes the drain chain after a failure
SendComplete_resume(i, ok) ==
    /\ ub = "none"
    /\ pc[LoopThread] = "idle"
    /\ i \in 1..Len(outstanding)
    /\ outstanding' = RemoveAt(outstanding, i)
    /\ pc' = [pc EXCEPT ![LoopThread] =
                IF ~MQ_empty(queue) THEN "async_send" ELSE "idle"]
    /\ sendErrors' = IF ok THEN sendErrors ELSE sendErrors + 1
    /\ stranded' = IF ok THEN stranded ELSE stranded \cup Range(queue)
    /\ UNCHANGED <<queue, msg, wire, sends, endpoint, started, recvPending,
                   recvDone, delivered, recvErrors, ub, rcVars>>

\* a send handler that puts the failed payload back into the queue
SendComplete_requeue(i, ok) ==
    /\ ub = "none"
    /\ pc[LoopThread] = "idle"
    /\ i \in 1..Len(outstanding)
    /\ outstanding' = RemoveAt(outstanding, i)
    /\ IF ok
       THEN /\ pc' = [pc EXCEPT ![LoopThread] =
                        IF ~MQ_empty(queue) THEN "async_send" ELSE "idle"]
            /\ UNCHANGED <<sendErrors, queue>>
       ELSE /\ sendErrors' = sendErrors + 1
            /\ queue' = Append(queue, outstanding[i].id)
            /\ UNCHANGED pc
    /\ stranded' = IF ok THEN stranded ELSE stranded \cup Range(queue)
    /\ UNCHANGED <<msg, wire, sends, endpoint, started, recvPending,
                   recvDone, delivered, recvErrors, ub, rcVars>>

\* the completion handler of async_send_to (lines 84-93) for the i-th
\* outstanding send, run by the loop thread
SendComplete(i, ok) ==
    /\ ub = "none"
    /\ pc[LoopThread] = "idle"
    /\ i \in 1..Len(outstanding)
    /\ outstanding' = RemoveAt(outstanding, i)
    /\ IF ok
       THEN /\ pc' = [pc EXCEPT ![LoopThread] =
                        IF ~MQ_empty(queue) THEN "async_send" ELSE "idle"]
            /\ UNCHANGED sendErrors
       ELSE /\ sendErrors' = sendErrors + 1
            /\ UNCHANGED pc
    /\ stranded' = IF ok THEN stranded ELSE stranded \cup Range(queue)
    /\ UNCHANGED <<queue, msg, wire, sends, endpoint, started, recvPending,
                   recvDone, delivered, recvErrors, ub, rcVars>>

\* the program: every call and every handler on the thread of main
Next ==
    \/ StartReceive
    \/ \E ok \in BOOLEAN, src \in Endpoints : RecvComplete(ok, src)
    \/ SendPush(LoopThread)
    \/ AsyncSendPop(LoopThread)
    \/ AsyncSendIssue(LoopThread)
    \/ \E i \in 1..MaxSends, ok \in BOOLEAN : SendComplete(i, ok)

Spec == Init /\ [][Next]_vars

\* main's loop never stops: the thread goes on through send() and
\* async_send() once it is inside them, and io_context.poll() runs the
\* handler of every send the socket has completed
Fairness ==
    /\ WF_vars(AsyncSendPop(LoopThread))
    /\ WF_vars(AsyncSendIssue(LoopThread))
    /\ WF_vars(\E i \in 1..MaxSends, ok \in BOOLEAN : SendComplete(i, ok))

SpecFair == Init /\ [][Next]_vars /\ Fairness

\* send() also called from other threads while the loop thread runs handlers
NextMT ==
    \/ StartReceive
    \/ \E ok \in BOOLEAN, src \in Endpoints : RecvComplete(ok, src)
    \/ \E t \in Threads : SendPush(t)
    \/ \E t \in Threads : AsyncSendPop(t)
    \/ \E t \in Threads : AsyncSendIssue(t)
    \/ \E i \in 1..MaxSends, ok \in BOOLEAN : SendComplete(i, ok)

SpecMT == Init /\ [][NextMT]_vars

\* ------------------------------------------------------- main: rc command
\* static_cast<int> of num/den: the fraction is discarded (toward zero)
TruncToInt(num, den) ==
    IF num >= 0 THEN num \div den ELSE -((-num) \div den)

\* static_cast<int>(state.axes[i] * 100), the axis given in thousandths
Scaled(ax) == TruncToInt(ax * 100, 1000)

\* a clamp that forgets the upper limit
Clamp_noUpper(v, lo, hi) == IF v < lo THEN lo ELSE v

\* std::clamp(v, lo, hi)
Clamp(v, lo, hi) == IF v < lo THEN lo ELSE IF hi < v THEN hi ELSE v

\* main, line 179: glfwGetGamepadState fills state.axes (all zero when no
\* gamepad is present, as in Init); the command of this iteration is not
\* built yet
PollGamepad ==
    /\ \E ax \in [AxisIndex -> AxisValues] : axes' = ax
    /\ rc' = <<>>
    /\ UNCHANGED connVars

\* main, lines 199-204: a, b, c, d of "rc {} {} {} {}"
BuildRc ==
    /\ rc = <<>>
    /\ rc' = << Clamp(Scaled(axes[2]), -100, 100),
                Clamp(Scaled(axes[3]), -100, 100),
                Clamp(Scaled(axes[1]), -100, 100),
                Clamp(Scaled(axes[0]), -100, 100) >>
    /\ UNCHANGED axes
    /\ UNCHANGED connVars

NextRc == PollGamepad \/ BuildRc

SpecRc == Init /\ [][NextRc]_vars

\* ================================================================ claims
WireIds == [k \in 1..Len(wire) |-> wire[k].id]

\* C1 (single-flight, as claimed): in every reachable state at most one
\* async_send_to operation is outstanding on the socket.
C1_SingleFlight == Len(outstanding) <= 1

\* C2 (was-empty handoff, as claimed): a send() whose push happens while a
\* send of a drain chain is still outstanding only appends to the queue; it
\* does not go on to async_send, which would start a second chain.
C2_NoSecondChain ==
    [][(sends' = sends + 1 /\ outstanding # <<>>) => pc' = pc]_vars

\* C3 (order preservation): the sends issued to the socket are, in issue
\* order, the payloads of the first, second, third ... send() call: a payload
\* is never issued before one enqueued earlier, nor twice.
C3_IssueOrder == \A k \in 1..Len(wire) : wire[k].id = k

\* C3 witness: three send() calls with no completion handled in between,
\* all three issued.
C3_Witness ==
    /\ WireIds = <<1, 2, 3>>
    /\ Len(outstanding) = 3
    /\ sendErrors = 0

\* C4 (fixed peer, as claimed): Connection::endpoint is always the endpoint
\* given to the constructor, and every send issued is addressed to it.
C4_FixedPeer ==
    /\ endpoint = Remote
    /\ \A k \in 1..Len(wire) : wire[k].dest = Remote

\* C5 (receive re-arm): once async_receive() has been called, as long as no
\* receive completion has failed, every completion handled so far delivered
\* one message to the observer and exactly one receive is pending.
C5_ReceiveRearm ==
    (started /\ recvErrors = 0) =>
        /\ Len(delivered) = recvDone
        /\ recvPending = 1

\* C5 witness: two or more consecutive successful completions.
C5_Witness ==
    /\ started
    /\ recvErrors = 0
    /\ recvDone >= 2
    /\ Len(delivered) = recvDone
    /\ recvPending = 1

\* C6 (receive failure is terminal): after a failed receive completion the
\* error has been reported exactly once, no receive is pending, and no step
\* delivers a message or arms a receive any more.
C6_ReceiveFailureTerminal ==
    /\ [](recvErrors >= 1 => (recvErrors = 1 /\ recvPending = 0))
    /\ [][recvErrors >= 1 =>
            (delivered' = delivered /\ recvPending' = 0 /\ recvErrors' = 1)]_vars

\* C6 witness: a receive failed after a successful one, and the loop could
\* still handle a completion, but none is pending.
C6_Witness ==
    /\ recvErrors = 1
    /\ Len(delivered) >= 1
    /\ recvDone < MaxRecv
    /\ recvPending = 0

\* C7 (failure containment): the handler of a failed send completion issues
\* no send and leaves the loop thread idle (the event loop goes on); and once
\* a send has failed, whenever the loop thread is back in the event loop,
\* every send() call made so far, those made after the failure included,
\* has issued its payload to the socket.
C7_FailureContainment ==
    /\ [][sendErrors' = sendErrors + 1 =>
            (wire' = wire /\ pc' = pc /\ pc[LoopThread] = "idle"
             /\ Len(outstanding') = Len(outstanding) - 1)]_vars
    /\ []((sendErrors >= 1 /\ pc[LoopThread] = "idle") =>
            \A id \in 1..sends : \E k \in 1..Len(wire) : wire[k].id = id)
    /\ [][(sendErrors >= 1 /\ sends' = sends + 1 /\ queue = <<>>) =>
            pc'[LoopThread] = "async_send"]_vars

\* C7 witness: a send was issued by a send() call made after a send failure.
C7_Witness ==
    \E k \in 1..Len(wire) :
        /\ wire[k].errs >= 1
        /\ wire[k].id = sends
        /\ pc[LoopThread] = "idle"

\* C8 (push): every push appends its payload at the back of the queue and
\* reports true exactly when the queue was empty before it; the caller goes
\* on to async_send exactly then.
C8_PushWasEmpty ==
    [][sends' = sends + 1 =>
        /\ queue' = Append(queue, sends')
        /\ (\E t \in Threads : pc[t] = "idle" /\ pc'[t] = "async_send")
              <=> (queue = <<>>)
        /\ (pc' = pc) <=> (queue # <<>>)]_vars

\* C8 witness: a push onto a non-empty queue returned false (two payloads
\* queued, one caller on its way to async_send) after concurrent sends.
C8_Witness ==
    /\ Len(queue) >= 2
    /\ \E t \in OtherThreads : pc[t] \in {"async_send", "issue"}
    /\ pc[LoopThread] = "idle"

\* C9 (pop on an empty queue, as claimed): a pop on an empty queue ends in
\* an explicit EmptyQueue error: no payload is handed to the caller and the
\* queue stays empty.
C9_ExplicitEmptyQueueError ==
    ub # "none" =>
        /\ ub = "EmptyQueue"
        /\ queue = <<>>
        /\ \A t \in Threads : msg[t] # Garbage

\* C10 (clamping): every field of the rc command is the truncated scaled
\* axis value when that lies in [-100, 100], 100 above it and -100 below it;
\* 150 gives 100, -150 gives -100, 42 gives 42.
RcAxis == <<2, 3, 1, 0>>
C10_Clamping ==
    rc # <<>> =>
        \A f \in 1..4 :
            LET v == Scaled(axes[RcAxis[f]]) IN
              /\ rc[f] \in -100..100
              /\ (v \in -100..100 => rc[f] = v)
              /\ (v > 100 => rc[f] = 100)
              /\ (v < -100 => rc[f] = -100)
              /\ (axes[RcAxis[f]] = 1500 => rc[f] = 100)
              /\ (axes[RcAxis[f]] = -1500 => rc[f] = -100)
              /\ (axes[RcAxis[f]] = 420 => rc[f] = 42)

\* C10 witness: one command with a field clamped from 150, one clamped from
\* -150, one passed through as 42 and one truncated toward zero to -42.
C10_Witness ==
    /\ axes = [i \in AxisIndex |-> <<1500, -1500, 420, -425>>[i + 1]]
    /\ rc = <<42, -42, -100, 100>>

\* C11 (dequeue precondition, as claimed): with send() called from the loop
\* thread and from other threads, async_send never pops an empty queue: a
\* thread about to pop finds a payload, and no pop has had undefined
\* behaviour.
C11_PopNeverOnEmpty ==
    /\ ub = "none"
    /\ \A t \in Threads : pc[t] # "aborted"

\* C12 (chain activity derivable from emptiness, as claimed): whenever the
\* queue is empty and no thread is inside send(), no send is outstanding.
C12_EmptyQueueMeansIdle ==
    (queue = <<>> /\ \A t \in Threads : pc[t] = "idle") => outstanding = <<>>

\* C13 (removal after issue, as claimed): at the step that issues a send to
\* the socket, the payload issued is still in the queue.
C13_QueuedWhenIssued ==
    [][Len(wire') = Len(wire) + 1 =>
         wire'[Len(wire')].id \in Range(queue)]_vars

\* C14 (at-most-once attempt): no payload is issued to the socket twice, and
\* the handler of a failed send completion neither issues a send nor changes
\* the queue, so the failed payload is not queued again.
C14_AtMostOnce ==
    /\ [](\A i, j \in 1..Len(wire) : i # j => wire[i].id # wire[j].id)
    /\ [](\A k \in 1..Len(queue) : queue[k] \notin Range(WireIds))
    /\ [][sendErrors' = sendErrors + 1 => (queue' = queue /\ wire' = wire)]_vars

\* C14 witness: a send failed, further payloads were sent after it, and every
\* send() call so far has had its one attempt.
C14_Witness ==
    /\ sendErrors >= 1
    /\ sends >= 2
    /\ WireIds = [k \in 1..sends |-> k]
    /\ wire[sends].errs >= 1
    /\ outstanding = <<>>

Stuck ==
    /\ ub = "none"
    /\ queue # <<>>
    /\ outstanding = <<>>
    /\ \A t \in Threads : pc[t] = "idle"

C16_LoopIndependence ==
    /\ [][sendErrors' = sendErrors + 1 =>
            UNCHANGED <<started, recvPending, recvDone, delivered,
                        recvErrors, endpoint>>]_vars
    /\ [][recvErrors' = recvErrors + 1 =>
            UNCHANGED <<queue, pc, msg, outstanding, wire, sends,
                        sendErrors>>]_vars
    /\ []((recvErrors >= 1 /\ pc[LoopThread] = "idle") =>
            \A id \in 1..sends : id \in Range(WireIds))

\* C16 witness: a send failed before any receive failure and messages were
\* still delivered; then the receive failed and a send was issued after it.
C16_Witness ==
    /\ \E k \in 1..Len(wire) : wire[k].errs >= 1 /\ wire[k].rerrs = 0
    /\ \E k \in 1..Len(wire) : wire[k].rerrs >= 1
    /\ Len(delivered) >= 1
    /\ recvErrors = 1
    /\ recvPending = 0

\* C17 (inbound order): the messages delivered to the observer are, in
\* order, the datagrams of the successful receive completions: the k-th
\* message delivered is the datagram of the k-th completion, one message per
\* successful completion, none twice and none skipped.
C17_InboundOrder ==
    /\ \A k \in 1..Len(delivered) : delivered[k] = k
    /\ Len(delivered) = recvDone - recvErrors

\* C17 witness: three datagrams delivered in their order of completion.
C17_Witness ==
    /\ delivered = <<1, 2, 3>>
    /\ recvErrors = 0
    /\ recvPending = 1

\* C20 (single pending receive): with async_receive() called once by main,
\* never more than one receive is outstanding on the receive buffer.
C20_SinglePendingReceive == recvPending <= 1

\* C20 witness: after several completions exactly one receive is pending.
C20_Witness ==
    /\ started
    /\ recvDone >= 2
    /\ recvErrors = 0
    /\ recvPending = 1
    /\ Len(delivered) >= 2

\* C19 (queue empty at rest): with every call on the loop thread, the queue
\* is empty whenever the thread is not inside send(); inside send() it holds
\* the caller's own payload only, which that call issues itself before it
\* returns; and the handler of a send completion always finds the queue
\* empty and starts nothing.
C19_QueueEmptyAtRest ==
    /\ [](pc[LoopThread] = "idle" => (queue = <<>> /\ Len(wire) = sends))
    /\ [](pc[LoopThread] = "async_send" => queue = <<sends>>)
    /\ [](pc[LoopThread] = "issue" => (queue = <<>> /\ msg[LoopThread] = sends))
    /\ [][Len(outstanding') < Len(outstanding) =>
            (queue = <<>> /\ pc' = pc)]_vars

\* C19 witness: several send() calls have each issued their send, a
\* successful completion has been handled, and the queue is empty at rest.
C19_Witness ==
    /\ pc[LoopThread] = "idle"
    /\ sends >= 2
    /\ Len(wire) = sends
    /\ sendErrors = 0
    /\ Len(outstanding) = 1
    /\ queue = <<>>

\* the handler of a successful send completion that finds the queue
\* non-empty goes on to async_send
DrainStepContinues ==
    [][(Len(outstanding') < Len(outstanding) /\ sendErrors' = sendErrors
        /\ queue # <<>>) => pc'[LoopThread] = "async_send"]_vars

\* C18 (drain liveness): if no send completion ever fails, then under the
\* fair event loop every payload passed to send() is eventually issued to
\* the socket, every issued send is eventually completed, and from some
\* point on (send() calls having stopped) the queue stays empty; a
\* successful completion that finds the queue non-empty issues the next send.
C18_DrainLiveness ==
    /\ [](sendErrors = 0) =>
          /\ \A id \in 1..MaxSends :
                (sends >= id) ~> (id \in Range(WireIds))
          /\ <>[](queue = <<>> /\ outstanding = <<>> /\ Len(wire) = sends)
    /\ DrainStepContinues

\* C18 witness: every send() call made has been issued and completed without
\* a failure, and the queue is empty.
C18_Witness ==
    /\ sends >= 2
    /\ sendErrors = 0
    /\ WireIds = [k \in 1..sends |-> k]
    /\ outstanding = <<>>
    /\ queue = <<>>
    /\ pc[LoopThread] = "idle"

====
